---------------------------- MODULE Spec2Model ----------------------------
(***************************************************************************)
(* A model of food-tracker-mcp: the SQLite-backed store                    *)
(* (src/src/services/database.ts) and the tool handlers of the MCP server  *)
(* (src/src/index.ts).                                                     *)
(*                                                                         *)
(* Conventions.                                                            *)
(*  - A nullable / optional value is a sequence of length at most one:     *)
(*    None is null (or undefined), Some(v) is the value v.                 *)
(*  - A JavaScript string that the code compares, sorts or uses as an      *)
(*    object key (the dates, the meal labels) is the sequence of its ASCII *)
(*    codes, so that SQLite's byte-wise comparison and JavaScript's        *)
(*    property order are computed, not assumed.  Strings that are only     *)
(*    tested for equality (tool names, food names) are TLA+ strings.       *)
(*  - A JavaScript number is an integer n.  Integers of magnitude below    *)
(*    BigUnit stand for themselves; n = h * BigUnit + l (0 <= l < BigUnit) *)
(*    with h > 0 stands for the double h * 2^53 + l (see NumAdd).          *)
(*    Quotients and their products are computed as doubles (NumDiv,        *)
(*    NumMul) before Math.round makes integers of them again.              *)
(***************************************************************************)
EXTENDS Integers, Sequences, FiniteSets, TLC

\* ------------------------------------------------------------------------
\* Optional values
\* ------------------------------------------------------------------------

None == << >>

Some(v) == << v >>

IsSome(o) == o # << >>

Val(o) == o[1]

\* x ?? y
Coalesce(x, y) == IF IsSome(x) THEN x ELSE y

\* ------------------------------------------------------------------------
\* Strings as sequences of ASCII codes
\* ------------------------------------------------------------------------

IsDigitCode(c) == c >= 48 /\ c <= 57

\* Byte-wise (memcmp) comparison, a proper prefix first: SQLite's BINARY
\* collation, which the TEXT column "date" uses.
RECURSIVE StrLess(_, _)
StrLess(a, b) ==
    IF b = << >> THEN FALSE
    ELSE IF a = << >> THEN TRUE
    ELSE IF a[1] # b[1] THEN a[1] < b[1]
    ELSE StrLess(Tail(a), Tail(b))

StrLeq(a, b) == a = b \/ StrLess(a, b)

\* The decimal digits of n, zero-padded to the given width (String.padStart
\* in Date.prototype.toISOString).
RECURSIVE PadDigits(_, _)
PadDigits(n, width) ==
    IF width = 0 THEN << >>
    ELSE Append(PadDigits(n \div 10, width - 1), 48 + (n % 10))

\* ------------------------------------------------------------------------
\* JavaScript Date (ECMA-262 21.4.1)
\* ------------------------------------------------------------------------

IsLeapYear(y) == (y % 4 = 0 /\ y % 100 # 0) \/ y % 400 = 0

\* Day number (days since 1970-01-01) of January 1st of year y.
DayFromYear(y) ==
    365 * (y - 1970) + ((y - 1969) \div 4) - ((y - 1901) \div 100)
        + ((y - 1601) \div 400)

YearFromDay(n) ==
    CHOOSE y \in (1970 + n \div 366)..(1970 + n \div 365 + 1) :
        DayFromYear(y) <= n /\ n < DayFromYear(y + 1)

\* Days of year y before its month m (0 = January .. 11 = December).
DaysBeforeMonth(y, m) ==
    << 0, 31, 59, 90, 120, 151, 181, 212, 243, 273, 304, 334 >>[m + 1]
        + (IF m > 1 /\ IsLeapYear(y) THEN 1 ELSE 0)

\* MonthFromTime: 0 = January .. 11 = December, from the day within the
\* year and whether the year is a leap year.
MonthFromDay(n) ==
    LET y    == YearFromDay(n)
        day  == n - DayFromYear(y)
        leap == IF IsLeapYear(y) THEN 1 ELSE 0
    IN  IF day < 31 THEN 0
        ELSE IF day < 59 + leap THEN 1
        ELSE IF day < 90 + leap THEN 2
        ELSE IF day < 120 + leap THEN 3
        ELSE IF day < 151 + leap THEN 4
        ELSE IF day < 181 + leap THEN 5
        ELSE IF day < 212 + leap THEN 6
        ELSE IF day < 243 + leap THEN 7
        ELSE IF day < 273 + leap THEN 8
        ELSE IF day < 304 + leap THEN 9
        ELSE IF day < 334 + leap THEN 10
        ELSE 11

\* DateFromTime: 1 .. 31
DateFromDay(n) ==
    LET y == YearFromDay(n)
    IN  n - DayFromYear(y) - DaysBeforeMonth(y, MonthFromDay(n)) + 1

\* MakeDay(year, month, date): month may lie outside 0..11 and date outside
\* the month; both carry over.
MakeDay(year, month, date) ==
    LET ym == year + (month \div 12)
        mn == month % 12
    IN  DayFromYear(ym) + DaysBeforeMonth(ym, mn) + date - 1

\* A Date object is its instant, in minutes since 1970-01-01T00:00Z.
MinutesPerDay == 24 * 60

\* Day(time): the day number of a time value.
Day(time) == time \div MinutesPerDay

\* TimeWithinDay(time)
TimeWithinDay(time) == time % MinutesPerDay

\* The host's time zone, as far as one call of a setter sees it: offset is
\* local time minus UTC (in minutes) at the instant of the Date, and
\* offsetAfter the one at the local time the setter arrives at.  The two
\* are equal except across a change to or from daylight saving time.
UTC == [offset |-> 0, offsetAfter |-> 0]

\* LocalTime(t)
LocalTime(time, tz) == time + tz.offset

\* Date.prototype.getDate()
GetDate(time, tz) == DateFromDay(Day(LocalTime(time, tz)))

\* Date.prototype.getMonth()
GetMonth(time, tz) == MonthFromDay(Day(LocalTime(time, tz)))

\* Date.prototype.setDate(date): the local time becomes MakeDate(MakeDay(
\* local year, local month, date), local time within the day), and the
\* time value the UTC of it.
SetDate(time, tz, date) ==
    LET local == LocalTime(time, tz)
        day   == Day(local)
    IN  MakeDay(YearFromDay(day), MonthFromDay(day), date) * MinutesPerDay
            + TimeWithinDay(local) - tz.offsetAfter

\* Date.prototype.setMonth(month): the local time becomes MakeDate(MakeDay(
\* local year, month, local date), local time within the day).
SetMonth(time, tz, month) ==
    LET local == LocalTime(time, tz)
        day   == Day(local)
    IN  MakeDay(YearFromDay(day), month, DateFromDay(day)) * MinutesPerDay
            + TimeWithinDay(local) - tz.offsetAfter

\* d.toISOString().split("T")[0] for a Date d of UTC day t: "YYYY-MM-DD"
\* (years 0..9999).
ToISODate(t) ==
    LET y == YearFromDay(t)
        m == MonthFromDay(t)
    IN  PadDigits(y, 4) \o << 45 >> \o PadDigits(m + 1, 2) \o << 45 >>
            \o PadDigits(t - DayFromYear(y) - DaysBeforeMonth(y, m) + 1, 2)


\* ------------------------------------------------------------------------
\* JavaScript numbers
\* ------------------------------------------------------------------------

\* The stand-in for 2^53 in the encoding of numbers: n = h * BigUnit + l
\* stands for the double h * 2^53 + l.  Every small part l that occurs is
\* far below BigUnit, so the encoded sum of two numbers is the encoding of
\* their exact sum.
BigUnit == 2 ^ 20

\* Number of bits of h (0 for 0).
RECURSIVE BitLength(_)
BitLength(h) ==
    IF h = 0 THEN 0
    ELSE IF h >= 2 ^ 10 THEN 10 + BitLength(h \div (2 ^ 10))
    ELSE IF h >= 2 ^ 4 THEN 4 + BitLength(h \div (2 ^ 4))
    ELSE 1 + BitLength(h \div 2)

\* l rounded to the nearest multiple of q, a tie going to the multiple of
\* 2q (round-half-to-even on the significand).
RoundHalfEven(l, q) ==
    LET r    == l % q
        down == l - r
        up   == down + q
    IN  IF 2 * r < q THEN down
        ELSE IF 2 * r > q THEN up
        ELSE IF down % (2 * q) = 0 THEN down ELSE up

\* An exact non-negative sum s rounded to a double (53-bit significand,
\* round to nearest, ties to even): below 2^53 every integer is a double; in
\* [2^53 * 2^(k-1), 2^53 * 2^k) the doubles are the multiples of 2^k.
ToDouble(s) ==
    LET h == s \div BigUnit
        l == s % BigUnit
    IN  IF h = 0 THEN s
        ELSE h * BigUnit + RoundHalfEven(l, 2 ^ BitLength(h))

\* a + b on JavaScript numbers (non-negative here).
NumAdd(a, b) == ToDouble(a + b)

\* x || 0 on a nullable number: null, undefined and 0 give 0.
OrZero(x) == IF IsSome(x) /\ Val(x) # 0 THEN Val(x) ELSE 0

\* Truthiness of a nullable number: set and not 0.
Truthy(x) == IsSome(x) /\ Val(x) # 0

\* --- Quotients and products: doubles as sign, significand and exponent ---
\*
\* The quotient of two integers is in general not an integer, and the
\* double nearest to it is not the quotient.  A double is here the record
\* [neg, man, exp] of value (-1)^neg * man * 2^exp, where man is a natural
\* number of at most 53 bits held as a sequence of limbs (base Limb, least
\* significant first, << >> for 0).  Magnitudes stay far from the
\* subnormal and the overflow range.

\* Bits in a limb.
LimbBits == 20

Limb == 2 ^ LimbBits

\* Bits of the quotient one step of the long division by d produces: a
\* whole limb while the remainder times Limb stays below 2^31, else half a
\* limb.
StepBits(d) == IF d < 2 ^ 11 THEN LimbBits ELSE 10

\* x * c + carry on limbs (0 <= carry < c; c = Limb, or c <= 2^11).
RECURSIVE BigTimesPlus(_, _, _)
BigTimesPlus(x, c, carry) ==
    IF x = << >> THEN (IF carry = 0 THEN << >> ELSE << carry >>)
    ELSE IF c = Limb THEN << carry >> \o x
    ELSE LET v == x[1] * c + carry
         IN  << v % Limb >> \o BigTimesPlus(Tail(x), c, v \div Limb)

\* x + y + carry on limbs.
RECURSIVE BigAdd(_, _, _)
BigAdd(x, y, carry) ==
    IF y = << >> /\ carry = 0 THEN x
    ELSE IF x = << >> /\ y = << >> THEN << carry >>
    ELSE LET a == IF x = << >> THEN 0 ELSE x[1]
             b == IF y = << >> THEN 0 ELSE y[1]
             v == a + b + carry
         IN  << v % Limb >>
                 \o BigAdd(IF x = << >> THEN << >> ELSE Tail(x),
                           IF y = << >> THEN << >> ELSE Tail(y),
                           v \div Limb)

\* Number of significant bits of x.
RECURSIVE BigBitLength(_)
BigBitLength(x) ==
    IF x = << >> THEN 0
    ELSE LET upper == BigBitLength(Tail(x))
         IN  IF upper > 0 THEN LimbBits + upper ELSE BitLength(x[1])

\* Bit i of x (bit 0 the least significant).
BigBit(x, i) ==
    IF i \div LimbBits + 1 > Len(x) THEN 0
    ELSE (x[i \div LimbBits + 1] \div (2 ^ (i % LimbBits))) % 2

\* The n lowest bits of x are all 0.
BigIsMultipleOfPow2(x, n) ==
    /\ \A i \in 1..Len(x) : i <= n \div LimbBits => x[i] = 0
    /\ n \div LimbBits + 1 <= Len(x) => x[n \div LimbBits + 1] % (2 ^ (n % LimbBits)) = 0

\* floor(x / 2^n)
BigShr(x, n) ==
    LET y == SubSeq(x, n \div LimbBits + 1, Len(x))
        s == n % LimbBits
    IN  [i \in 1..Len(y) |->
            (y[i] \div (2 ^ s))
                + (IF i < Len(y) THEN (y[i + 1] % (2 ^ s)) * (2 ^ (LimbBits - s))
                   ELSE 0)]

\* 2^n
BigPow2(n) ==
    [i \in 1..(n \div LimbBits + 1) |-> IF i = n \div LimbBits + 1 THEN 2 ^ (n % LimbBits) ELSE 0]

\* The integer x (below 2^31).
BigToInt(x) ==
    IF x = << >> THEN 0
    ELSE x[1] + (IF Len(x) > 1 /\ x[2] # 0 THEN x[2] * Limb ELSE 0)

\* The double nearest to (x + f) * 2^k, where 0 <= f < 1 and inexact says
\* that f > 0: the significand is cut to 53 bits, to nearest, a tie to the
\* even significand.
RoundToDouble(neg, x, k, inexact) ==
    LET n == BigBitLength(x) - 53
    IN  IF n <= 0 THEN [neg |-> neg, man |-> x, exp |-> k]
        ELSE LET down   == BigShr(x, n)
                 half   == BigBit(x, n - 1) = 1
                 sticky == inexact \/ ~BigIsMultipleOfPow2(x, n - 1)
                 up     == half /\ (sticky \/ BigBit(x, n) = 1)
             IN  [neg |-> neg,
                  man |-> IF up THEN BigAdd(down, << 1 >>, 0) ELSE down,
                  exp |-> k + n]

\* Long division, StepBits(d) bits a step: the quotient x and remainder r
\* of some n * 2^j by d become those of n * 2^(j + StepBits(d) * done),
\* where done = steps - left; the division ends early (left > 0) when it
\* comes out even.
RECURSIVE LongDivide(_, _, _, _)
LongDivide(x, r, d, steps) ==
    IF steps = 0 \/ r = 0 THEN [quot |-> x, rem |-> r, left |-> steps]
    ELSE LET shifted == r * (2 ^ StepBits(d))
         IN  LongDivide(BigTimesPlus(x, 2 ^ StepBits(d), shifted \div d),
                        shifted % d, d, steps - 1)

\* a / b on integers a, b (b # 0, magnitudes below Limb): the double
\* nearest to the quotient.  A quotient that is an integer is a double as
\* it is; any other is carried to at least 55 bits before it is rounded.
NumDiv(a, b) ==
    LET n     == IF a < 0 THEN -a ELSE a
        d     == IF b < 0 THEN -b ELSE b
        neg   == (a < 0) # (b < 0)
        steps == (55 + BitLength(d) - BitLength(n)) \div StepBits(d) + 1
        q     == LongDivide(IF n \div d = 0 THEN << >> ELSE << n \div d >>,
                            n % d, d, steps)
    IN  RoundToDouble(neg, q.quot, -(StepBits(d) * (steps - q.left)),
                      q.rem # 0)

\* x * c for a double x and an integer c in 1..100.
NumMul(x, c) == RoundToDouble(x.neg, BigTimesPlus(x.man, c, 0), x.exp, FALSE)

\* Math.round(x) = floor(x + 1/2), for a double x of magnitude below 2^31.
MathRound(x) ==
    IF x.exp >= 0
    THEN (IF x.neg THEN -1 ELSE 1) * BigToInt(x.man) * (2 ^ x.exp)
    ELSE LET n     == -x.exp
             sum   == BigAdd(x.man, BigPow2(n - 1), 0)
             floor == BigToInt(BigShr(sum, n))
         IN  IF ~x.neg THEN floor
             ELSE IF BigIsMultipleOfPow2(sum, n) THEN -(floor - 1)
             ELSE -floor

\* Math.round(n / d) for integers n, d; None when d = 0 (the quotient is
\* then NaN or an infinity, which Math.round returns as it is).
MathRoundDiv(n, d) ==
    IF d = 0 THEN None ELSE Some(MathRound(NumDiv(n, d)))

\* Math.round((n / d) * c) for integers n, d and c in 1..100: the quotient
\* is rounded to a double before it is multiplied, and the product again.
MathRoundDivTimes(n, d, c) ==
    IF d = 0 THEN None ELSE Some(MathRound(NumMul(NumDiv(n, d), c)))

Abs(n) == IF n < 0 THEN -n ELSE n

\* ------------------------------------------------------------------------
\* services/database.ts: calculateTotals
\* ------------------------------------------------------------------------

ZeroTotals ==
    [calories |-> 0, protein_g |-> 0, carbs_g |-> 0, fat_g |-> 0, fiber_g |-> 0]

\* calculateTotals with fat_g summed from carbs_g (a copied line left
\* unedited).
RECURSIVE calculateTotalsCopiedLine(_)
calculateTotalsCopiedLine(entries) ==
    IF entries = << >> THEN ZeroTotals
    ELSE LET totals == calculateTotalsCopiedLine(
                           SubSeq(entries, 1, Len(entries) - 1))
             entry  == entries[Len(entries)]
         IN  [calories  |-> NumAdd(totals.calories, OrZero(entry.calories)),
              protein_g |-> NumAdd(totals.protein_g, OrZero(entry.protein_g)),
              carbs_g   |-> NumAdd(totals.carbs_g, OrZero(entry.carbs_g)),
              fat_g     |-> NumAdd(totals.fat_g, OrZero(entry.carbs_g)),
              fiber_g   |-> NumAdd(totals.fiber_g, OrZero(entry.fiber_g))]

\* calculateTotals that leaves the first entry out (a loop from index 1).
RECURSIVE calculateTotalsSkipFirst(_)
calculateTotalsSkipFirst(entries) ==
    IF Len(entries) <= 1 THEN ZeroTotals
    ELSE LET totals == calculateTotalsSkipFirst(
                           SubSeq(entries, 1, Len(entries) - 1))
             entry  == entries[Len(entries)]
         IN  [calories  |-> NumAdd(totals.calories, OrZero(entry.calories)),
              protein_g |-> NumAdd(totals.protein_g, OrZero(entry.protein_g)),
              carbs_g   |-> NumAdd(totals.carbs_g, OrZero(entry.carbs_g)),
              fat_g     |-> NumAdd(totals.fat_g, OrZero(entry.fat_g)),
              fiber_g   |-> NumAdd(totals.fiber_g, OrZero(entry.fiber_g))]

\* entries.reduce((totals, entry) => ..., {0, 0, 0, 0, 0}): a left fold.
RECURSIVE calculateTotals(_)
calculateTotals(entries) ==
    IF entries = << >> THEN ZeroTotals
    ELSE LET totals == calculateTotals(SubSeq(entries, 1, Len(entries) - 1))
             entry  == entries[Len(entries)]
         IN  [calories  |-> NumAdd(totals.calories, OrZero(entry.calories)),
              protein_g |-> NumAdd(totals.protein_g, OrZero(entry.protein_g)),
              carbs_g   |-> NumAdd(totals.carbs_g, OrZero(entry.carbs_g)),
              fat_g     |-> NumAdd(totals.fat_g, OrZero(entry.fat_g)),
              fiber_g   |-> NumAdd(totals.fiber_g, OrZero(entry.fiber_g))]

\* ------------------------------------------------------------------------
\* State
\* ------------------------------------------------------------------------

VARIABLES
    db,         \* database.ts: the module variable db is not null
    goals,      \* the rows of table goals in data.db (the file outlives db)
    food_logs,  \* the rows of table food_logs, in rowid order
    seq,        \* sqlite_sequence of food_logs: the largest id ever assigned
    resp,       \* the result of the last tool call, with what it presents
    arg,        \* argument of a direct call of a pure function
    ret,        \* result of that call
    pending     \* search_food calls awaiting usdaApi.searchFoods (index.ts 200)

vars == << db, goals, food_logs, seq, resp, arg, ret, pending >>

\* ------------------------------------------------------------------------
\* Bounds of the model
\* ------------------------------------------------------------------------

\* Rows table food_logs holds at most.
MaxEntries == 3

\* Ids assigned at most (deleted rows' ids are not reused).
MaxSeq == 3

\* Entries in an argument of a direct call of calculateTotals, at most.
MaxLen == 3

\* search_food calls that await the remote lookup at the same time, at most.
MaxPending == 1

\* ------------------------------------------------------------------------
\* services/database.ts: the store
\* ------------------------------------------------------------------------

\* INSERT INTO goals (id, daily_calories, protein_g, carbs_g, fat_g)
\*   VALUES (1, 2000, 150, 250, 65)
DefaultGoals ==
    [id |-> 1, daily_calories |-> Some(2000), protein_g |-> Some(150),
     carbs_g |-> Some(250), fat_g |-> Some(65)]

\* initializeSchema without the INSERT of the default row.
initializeSchemaNoDefault(rows) == rows

\* initializeSchema on a file whose goals table holds the given rows (none
\* when the file or the table is new): the default row is inserted when
\* SELECT COUNT(*) FROM goals is 0.  CREATE TABLE IF NOT EXISTS keeps the
\* rows of an existing table.
initializeSchema(rows) ==
    IF Cardinality(rows) = 0 THEN {DefaultGoals} ELSE rows

\* The goals table once getDb() has returned: opened and initialised if db
\* was null, as it is otherwise.
getDb == IF db THEN goals ELSE initializeSchema(goals)

\* SELECT * FROM goals WHERE id = 1 (.get(): the row, or undefined).
getGoals(rows) ==
    IF \E r \in rows : r.id = 1
    THEN Some(CHOOSE r \in rows : r.id = 1)
    ELSE None

\* goals?.field
GoalField(g, f) == IF IsSome(g) THEN Val(g)[f] ELSE None

\* updateGoals(input): the table after UPDATE goals SET ... WHERE id = 1,
\* each column set to input.field ?? current?.field.
updateGoals(rows, input) ==
    LET current == getGoals(rows)
        newGoals ==
            [daily_calories |-> Coalesce(input.daily_calories,
                                         GoalField(current, "daily_calories")),
             protein_g      |-> Coalesce(input.protein_g,
                                         GoalField(current, "protein_g")),
             carbs_g        |-> Coalesce(input.carbs_g,
                                         GoalField(current, "carbs_g")),
             fat_g          |-> Coalesce(input.fat_g,
                                         GoalField(current, "fat_g"))]
    IN  { IF r.id = 1
          THEN [id |-> 1,
                daily_calories |-> newGoals.daily_calories,
                protein_g      |-> newGoals.protein_g,
                carbs_g        |-> newGoals.carbs_g,
                fat_g          |-> newGoals.fat_g]
          ELSE r : r \in rows }

\* ORDER BY logged_at
ByLoggedAt(a, b) == a.logged_at < b.logged_at

\* ORDER BY date, logged_at
ByDateLoggedAt(a, b) ==
    \/ StrLess(a.date, b.date)
    \/ a.date = b.date /\ a.logged_at < b.logged_at

\* Whether row a comes before row b under the named ORDER BY clause.
Before(clause, a, b) ==
    IF clause = "logged_at" THEN ByLoggedAt(a, b) ELSE ByDateLoggedAt(a, b)

\* A stable sort of a sequence of rows by an ORDER BY clause (rows that the
\* clause does not order keep their rowid order, as SQLite returns them
\* here).
RECURSIVE InsertOrdered(_, _, _)
InsertOrdered(sorted, row, clause) ==
    IF sorted = << >> THEN << row >>
    ELSE IF Before(clause, row, sorted[Len(sorted)])
         THEN Append(InsertOrdered(SubSeq(sorted, 1, Len(sorted) - 1),
                                   row, clause),
                     sorted[Len(sorted)])
         ELSE Append(sorted, row)

RECURSIVE OrderBy(_, _)
OrderBy(rows, clause) ==
    IF rows = << >> THEN << >>
    ELSE InsertOrdered(OrderBy(SubSeq(rows, 1, Len(rows) - 1), clause),
                       rows[Len(rows)], clause)

\* logFood on a table whose id is not AUTOINCREMENT: the id is one more than
\* the largest id stored.
logFoodAfterLargestId(entry) ==
    LET largest == IF food_logs = << >> THEN 0
                   ELSE food_logs[Len(food_logs)].id
    IN  [id        |-> largest + 1,
         logged_at |-> seq + 1,
         date      |-> entry.date,
         meal      |-> entry.meal,
         food_name |-> entry.food_name,
         calories  |-> entry.calories,
         protein_g |-> entry.protein_g,
         carbs_g   |-> entry.carbs_g,
         fat_g     |-> entry.fat_g,
         fiber_g   |-> entry.fiber_g]

\* logFood(entry): the row INSERTed, with the AUTOINCREMENT id and the
\* DEFAULT CURRENT_TIMESTAMP logged_at.  The timestamp is the logical time
\* of the INSERT, one tick per INSERT: CURRENT_TIMESTAMP does not decrease
\* from one INSERT to the next, and rows of equal logged_at come back from
\* ORDER BY logged_at in rowid order, so a clock with ties orders the rows
\* no differently.
logFood(entry) ==
    [id        |-> seq + 1,
     logged_at |-> seq + 1,
     date      |-> entry.date,
     meal      |-> entry.meal,
     food_name |-> entry.food_name,
     calories  |-> entry.calories,
     protein_g |-> entry.protein_g,
     carbs_g   |-> entry.carbs_g,
     fat_g     |-> entry.fat_g,
     fiber_g   |-> entry.fiber_g]

\* getDailyLog without its WHERE date = ?.
getDailyLogOfAllDates(rows, date) == OrderBy(rows, "logged_at")

\* SELECT * FROM food_logs WHERE date = ? ORDER BY logged_at
getDailyLog(rows, date) ==
    LET Match(r) == r.date = date
    IN  OrderBy(SelectSeq(rows, Match), "logged_at")

\* SELECT * FROM food_logs WHERE date >= ? AND date <= ?
\*   ORDER BY date, logged_at
getLogsByDateRange(rows, startDate, endDate) ==
    LET Match(r) == StrLeq(startDate, r.date) /\ StrLeq(r.date, endDate)
    IN  OrderBy(SelectSeq(rows, Match), "date, logged_at")

\* deleteEntry with WHERE id <= ? in the place of WHERE id = ?.
deleteEntryUpTo(rows, id) ==
    LET Keep(r) == r.id > id
    IN  SelectSeq(rows, Keep)

\* DELETE FROM food_logs WHERE id = ?: the rows left.
deleteEntry(rows, id) ==
    LET Keep(r) == r.id # id
    IN  SelectSeq(rows, Keep)

\* ------------------------------------------------------------------------
\* index.ts: the try block around every tool call, and its catch
\* ------------------------------------------------------------------------

\* How the body of the try block ends: with a return, or with a throw
\* (synchronous, or the rejection of an awaited promise).
Return(result) == [thrown |-> FALSE, result |-> result]

Throw(message) == [thrown |-> TRUE, message |-> message]

\* A try block without its catch: the throw leaves the handler, which
\* returns no result.
TryWithoutCatch(name, outcome) ==
    IF outcome.thrown
    THEN [tool |-> name, isError |-> FALSE, kind |-> "rejected",
          message |-> outcome.message]
    ELSE outcome.result

\* catch (error) { return { content: [`Error: ${message}`], isError: true } }
TryCatch(name, outcome) ==
    IF outcome.thrown
    THEN [tool |-> name, isError |-> TRUE, kind |-> "error",
          message |-> outcome.message]
    ELSE outcome.result

\* ------------------------------------------------------------------------
\* JavaScript objects used as maps: the order of Object.entries
\* ------------------------------------------------------------------------

NonEmpty(str) == str # << >>

\* s || fallback on an optional string: undefined and "" give the fallback.
StrOr(s, fallback) == IF IsSome(s) /\ NonEmpty(Val(s)) THEN Val(s) ELSE fallback

\* A canonical array index: the decimal numeral, without leading zeros, of
\* an integer in 0 .. 2^32 - 2 ("4294967294").
IsArrayIndex(key) ==
    /\ NonEmpty(key)
    /\ \A i \in 1..Len(key) : IsDigitCode(key[i])
    /\ Len(key) = 1 \/ key[1] # 48
    /\ \/ Len(key) < 10
       \/ /\ Len(key) = 10
          /\ StrLeq(key, << 52, 50, 57, 52, 57, 54, 55, 50, 57, 52 >>)

\* Numeric order of two canonical array indices.
IndexLess(a, b) == Len(a) < Len(b) \/ (Len(a) = Len(b) /\ StrLess(a, b))

\* The properties an object literal {} inherits from Object.prototype:
\* map[key] is a function (for "__proto__" the prototype object) before
\* anything is stored under such a key.  In this order: constructor,
\* __defineGetter__, __defineSetter__, hasOwnProperty, __lookupGetter__,
\* __lookupSetter__, isPrototypeOf, propertyIsEnumerable, toString,
\* valueOf, __proto__, toLocaleString.
ObjectPrototypeKeys ==
    {<< 99, 111, 110, 115, 116, 114, 117, 99, 116, 111, 114 >>,
     << 95, 95, 100, 101, 102, 105, 110, 101, 71, 101, 116, 116, 101, 114, 95, 95 >>,
     << 95, 95, 100, 101, 102, 105, 110, 101, 83, 101, 116, 116, 101, 114, 95, 95 >>,
     << 104, 97, 115, 79, 119, 110, 80, 114, 111, 112, 101, 114, 116, 121 >>,
     << 95, 95, 108, 111, 111, 107, 117, 112, 71, 101, 116, 116, 101, 114, 95, 95 >>,
     << 95, 95, 108, 111, 111, 107, 117, 112, 83, 101, 116, 116, 101, 114, 95, 95 >>,
     << 105, 115, 80, 114, 111, 116, 111, 116, 121, 112, 101, 79, 102 >>,
     << 112, 114, 111, 112, 101, 114, 116, 121, 73, 115, 69, 110, 117, 109, 101, 114, 97, 98, 108, 101 >>,
     << 116, 111, 83, 116, 114, 105, 110, 103 >>,
     << 118, 97, 108, 117, 101, 79, 102 >>,
     << 95, 95, 112, 114, 111, 116, 111, 95, 95 >>,
     << 116, 111, 76, 111, 99, 97, 108, 101, 83, 116, 114, 105, 110, 103 >>}

\* for (...) { if (!map[key]) map[key] = []; map[key].push(entry) } on an
\* empty object literal: the keys created, each once, in the order in
\* which they first occur.  Under an inherited key !map[key] is false, no
\* array is created, and map[key].push(entry) throws the TypeError
\* "... .push is not a function" (message).
RECURSIVE InInsertionOrder(_, _, _)
InInsertionOrder(keys, inherited, message) ==
    IF keys = << >> THEN Return(<< >>)
    ELSE LET front == InInsertionOrder(SubSeq(keys, 1, Len(keys) - 1),
                                       inherited, message)
             key   == keys[Len(keys)]
         IN  IF front.thrown THEN front
             ELSE IF key \in inherited THEN Throw(message)
             ELSE IF \E i \in 1..Len(front.result) : front.result[i] = key
             THEN front
             ELSE Return(Append(front.result, key))

RECURSIVE InsertIndex(_, _)
InsertIndex(sorted, key) ==
    IF sorted = << >> THEN << key >>
    ELSE IF IndexLess(key, sorted[Len(sorted)])
         THEN Append(InsertIndex(SubSeq(sorted, 1, Len(sorted) - 1), key),
                     sorted[Len(sorted)])
         ELSE Append(sorted, key)

RECURSIVE SortIndices(_)
SortIndices(keys) ==
    IF keys = << >> THEN << >>
    ELSE InsertIndex(SortIndices(SubSeq(keys, 1, Len(keys) - 1)),
                     keys[Len(keys)])

\* OrdinaryOwnPropertyKeys: the array indices in ascending numeric order,
\* then the other string keys in the order of their creation.
OwnKeys(inserted) ==
    LET IsOther(k) == ~IsArrayIndex(k)
    IN  SortIndices(SelectSeq(inserted, IsArrayIndex))
            \o SelectSeq(inserted, IsOther)

\* ------------------------------------------------------------------------
\* index.ts: the tool handlers
\* ------------------------------------------------------------------------

\* The UTC day (days since 1970-01-01) of the wall clock: 2025-03-31.  The
\* model covers the calls the server gets within this day.
Today == MakeDay(2025, 2, 31)

\* new Date(): an instant of that day (noon).
Now == Today * MinutesPerDay + 12 * 60

\* getToday()
getToday == ToISODate(Today)

NoResponse == [tool |-> "none", isError |-> FALSE, kind |-> "none"]

\* goals?.field, when truthy (what the handlers test before they present a
\* goal): the goal, else None.
ShownGoal(g, f) ==
    IF Truthy(GoalField(g, f)) THEN GoalField(g, f) ELSE None

\* case "log_food", after LogFoodSchema.parse(args): the row stored and the
\* response.  ${remaining > 0 ? remaining + " remaining"
\*                            : Math.abs(remaining) + " over goal"}
LogFoodDate(input) == StrOr(input.date, getToday)

LogFoodEntry(input) ==
    logFood([date      |-> LogFoodDate(input),
             meal      |-> input.meal,
             food_name |-> input.food_name,
             calories  |-> Some(input.calories),
             protein_g |-> input.protein_g,
             carbs_g   |-> input.carbs_g,
             fat_g     |-> input.fat_g,
             fiber_g   |-> input.fiber_g])

LogFoodResponse(input) ==
    LET date         == LogFoodDate(input)
        entry        == LogFoodEntry(input)
        dailyEntries == getDailyLog(Append(food_logs, entry), date)
        totals       == calculateTotals(dailyEntries)
        g            == getGoals(getDb)
        goal         == ShownGoal(g, "daily_calories")
        remaining    == Val(goal) - totals.calories
    IN  [tool      |-> "log_food",
         isError   |-> FALSE,
         kind      |-> "logged",
         entry     |-> entry,
         date      |-> date,
         totals    |-> totals,
         remaining |-> [daily_calories |->
                           IF IsSome(goal) THEN Some(remaining) ELSE None,
                        protein_g |-> None,
                        carbs_g   |-> None,
                        fat_g     |-> None],
         framing   |-> IF ~IsSome(goal) THEN None
                       ELSE IF remaining > 0
                            THEN Some([amount |-> remaining,
                                       label  |-> "remaining"])
                            ELSE Some([amount |-> Abs(remaining),
                                       label  |-> "over goal"])]

LogFood(input) ==
    /\ Len(food_logs) < MaxEntries
    /\ seq < MaxSeq
    /\ db' = TRUE
    /\ goals' = getDb
    /\ food_logs' = Append(food_logs, LogFoodEntry(input))
    /\ seq' = seq + 1
    /\ resp' = LogFoodResponse(input)
    /\ UNCHANGED << arg, ret, pending >>

\* case "get_daily_log", after GetDailyLogSchema.parse(args).
\* entry.meal || "unspecified": a meal that is null or "" gives the label
\* "unspecified".
MealKey(entry) ==
    StrOr(entry.meal,
          << 117, 110, 115, 112, 101, 99, 105, 102, 105, 101, 100 >>)

\* The loop over the entries that fills byMeal, then Object.entries(byMeal):
\* the labels that are array indices first, in ascending numeric order,
\* then the other labels in the order of their creation.
MealGroups(entries) ==
    LET created == InInsertionOrder(
                       [i \in 1..Len(entries) |-> MealKey(entries[i])],
                       ObjectPrototypeKeys,
                       "byMeal[meal].push is not a function")
        labels  == OwnKeys(created.result)
    IN  IF created.thrown THEN created
        ELSE Return([k \in 1..Len(labels) |->
                 LET InGroup(e) == MealKey(e) = labels[k]
                 IN  [meal    |-> labels[k],
                      entries |-> SelectSeq(entries, InGroup)]])

\* The ratio of actual to goal rounded, the factor 100 left out.
RatioOfGoal(actual, goal) ==
    IF IsSome(goal) THEN Some(MathRoundDiv(actual, Val(goal))) ELSE None

\* Math.round((actual / goal) * 100), when the goal is truthy.
PercentOfGoal(actual, goal) ==
    IF IsSome(goal) THEN Some(MathRoundDivTimes(actual, Val(goal), 100))
    ELSE None

GoalsShown(g) ==
    [daily_calories |-> ShownGoal(g, "daily_calories"),
     protein_g      |-> ShownGoal(g, "protein_g"),
     carbs_g        |-> ShownGoal(g, "carbs_g"),
     fat_g          |-> ShownGoal(g, "fat_g")]

GetDailyLogResponse(input) ==
    LET targetDate == StrOr(input.date, getToday)
        entries    == getDailyLog(food_logs, targetDate)
        g          == getGoals(getDb)
        totals     == calculateTotals(entries)
        groups     == MealGroups(entries)
    IN  IF Len(entries) = 0
        THEN [tool |-> "get_daily_log", isError |-> FALSE, kind |-> "empty",
              date |-> targetDate]
        ELSE IF groups.thrown THEN TryCatch("get_daily_log", groups)
        ELSE [tool    |-> "get_daily_log",
              isError |-> FALSE,
              kind    |-> "log",
              date    |-> targetDate,
              groups  |-> groups.result,
              totals  |-> totals,
              pct     |-> PercentOfGoal(totals.calories,
                                        ShownGoal(g, "daily_calories")),
              goals   |-> GoalsShown(g)]

GetDailyLog(input) ==
    /\ db' = TRUE
    /\ goals' = getDb
    /\ resp' = GetDailyLogResponse(input)
    /\ UNCHANGED << food_logs, seq, arg, ret, pending >>

\* case "set_goals", after SetGoalsSchema.parse(args).
NothingToSet(input) ==
    /\ ~Truthy(input.daily_calories)
    /\ ~Truthy(input.protein_g)
    /\ ~Truthy(input.carbs_g)
    /\ ~Truthy(input.fat_g)

SetGoalsTable(input) ==
    IF NothingToSet(input) THEN getDb ELSE updateGoals(getDb, input)

\* updated = updateGoals(input) is getGoals()!: undefined when the table
\* holds no row of id 1 (the UPDATE then changes nothing), and reading
\* updated.daily_calories throws the TypeError the catch returns.
SetGoalsResponse(input) ==
    IF NothingToSet(input)
    THEN [tool |-> "set_goals", isError |-> FALSE, kind |-> "current",
          goals |-> GoalsShown(getGoals(getDb))]
    ELSE LET updated == getGoals(updateGoals(getDb, input))
         IN  TryCatch("set_goals",
                 IF IsSome(updated)
                 THEN Return([tool |-> "set_goals", isError |-> FALSE,
                              kind |-> "updated", goals |-> Val(updated)])
                 ELSE Throw("Cannot read properties of undefined (reading 'daily_calories')"))

SetGoals(input) ==
    /\ db' = TRUE
    /\ goals' = SetGoalsTable(input)
    /\ resp' = SetGoalsResponse(input)
    /\ UNCHANGED << food_logs, seq, arg, ret, pending >>

\* case "delete_entry", after DeleteEntrySchema.parse(args).
DeleteEntryResponse(input) ==
    LET deleted == Len(deleteEntry(food_logs, input.entry_id)) < Len(food_logs)
    IN  [tool |-> "delete_entry", isError |-> FALSE,
         kind |-> IF deleted THEN "deleted" ELSE "not_found",
         entry_id |-> input.entry_id]

DeleteEntry(input) ==
    /\ db' = TRUE
    /\ goals' = getDb
    /\ food_logs' = deleteEntry(food_logs, input.entry_id)
    /\ resp' = DeleteEntryResponse(input)
    /\ UNCHANGED << seq, arg, ret, pending >>

\* case "get_summary", after GetSummarySchema.parse(args): the period.
\* now is the time value of "new Date()", tz the host's time zone.
WeekAgo(now, tz) == SetDate(now, tz, GetDate(now, tz) - 7)

MonthAgo(now, tz) == SetMonth(now, tz, GetMonth(now, tz) - 1)

ResolvePeriod(input, now, tz) ==
    IF input.period = Some("week")
    THEN [startDate |-> ToISODate(Day(WeekAgo(now, tz))),
          endDate   |-> ToISODate(Day(now))]
    ELSE IF input.period = Some("month")
    THEN [startDate |-> ToISODate(Day(MonthAgo(now, tz))),
          endDate   |-> ToISODate(Day(now))]
    ELSE IF /\ IsSome(input.start_date) /\ NonEmpty(Val(input.start_date))
            /\ IsSome(input.end_date) /\ NonEmpty(Val(input.end_date))
    THEN [startDate |-> Val(input.start_date), endDate |-> Val(input.end_date)]
    ELSE [startDate |-> ToISODate(Day(WeekAgo(now, tz))),
          endDate   |-> ToISODate(Day(now))]

\* The loop over the entries that fills byDate, then
\* Object.entries(byDate).map(([date, dayEntries]) =>
\*     ({date, ...calculateTotals(dayEntries)}))
DailyTotals(entries) ==
    LET created == InInsertionOrder(
                       [i \in 1..Len(entries) |-> entries[i].date],
                       ObjectPrototypeKeys,
                       "byDate[entry.date].push is not a function")
        dates   == OwnKeys(created.result)
    IN  IF created.thrown THEN created
        ELSE Return([k \in 1..Len(dates) |->
                 LET OnDate(e) == e.date = dates[k]
                     totals    == calculateTotals(SelectSeq(entries, OnDate))
                 IN  [date      |-> dates[k],
                      calories  |-> totals.calories,
                      protein_g |-> totals.protein_g,
                      carbs_g   |-> totals.carbs_g,
                      fat_g     |-> totals.fat_g,
                      fiber_g   |-> totals.fiber_g]])

\* dailyTotals.reduce((sum, d) => sum + d[field], 0)
RECURSIVE SumOverDays(_, _)
SumOverDays(dailyTotals, field) ==
    IF dailyTotals = << >> THEN 0
    ELSE NumAdd(SumOverDays(SubSeq(dailyTotals, 1, Len(dailyTotals) - 1), field),
                dailyTotals[Len(dailyTotals)][field])

\* The average over the seven calendar days of a week, whatever the number
\* of days with entries.
AverageOverCalendarDays(dailyTotals, field) ==
    MathRoundDiv(SumOverDays(dailyTotals, field), 7)

\* Math.round(sum / numDays)
AverageRounded(dailyTotals, field) ==
    MathRoundDiv(SumOverDays(dailyTotals, field), Len(dailyTotals))

\* Math.round((sum / numDays) * 10) / 10, in tenths.
AverageTenths(dailyTotals, field) ==
    MathRoundDivTimes(SumOverDays(dailyTotals, field), Len(dailyTotals), 10)

\* get_summary without its check for an empty result.
NeverNoEntries(entries) == FALSE

\* if (entries.length === 0) return "No food entries found ..."
NoEntries(entries) == Len(entries) = 0

GetSummaryResponse(input, tz) ==
    LET range       == ResolvePeriod(input, Now, tz)
        entries     == getLogsByDateRange(food_logs, range.startDate,
                                          range.endDate)
        g           == getGoals(getDb)
        grouped     == DailyTotals(entries)
        dailyTotals == grouped.result
        avgCalories == AverageRounded(dailyTotals, "calories")
        goal        == ShownGoal(g, "daily_calories")
    IN  IF NoEntries(entries)
        THEN [tool |-> "get_summary", isError |-> FALSE, kind |-> "empty",
              startDate |-> range.startDate, endDate |-> range.endDate]
        ELSE IF grouped.thrown THEN TryCatch("get_summary", grouped)
        ELSE [tool        |-> "get_summary",
              isError     |-> FALSE,
              kind        |-> "summary",
              startDate   |-> range.startDate,
              endDate     |-> range.endDate,
              numDays     |-> Len(dailyTotals),
              numEntries  |-> Len(entries),
              avgCalories |-> avgCalories,
              avgProtein  |-> AverageTenths(dailyTotals, "protein_g"),
              avgCarbs    |-> AverageTenths(dailyTotals, "carbs_g"),
              avgFat      |-> AverageTenths(dailyTotals, "fat_g"),
              pct         |-> IF IsSome(avgCalories)
                              THEN PercentOfGoal(Val(avgCalories), goal)
                              ELSE IF IsSome(goal) THEN Some(None) ELSE None,
              goals       |-> GoalsShown(g),
              dailyTotals |-> dailyTotals]

GetSummary(input, tz) ==
    /\ db' = TRUE
    /\ goals' = getDb
    /\ resp' = GetSummaryResponse(input, tz)
    /\ UNCHANGED << food_logs, seq, arg, ret, pending >>

\* The SIGINT / SIGTERM handlers: closeDb(), then process.exit(0).  The file
\* keeps its rows; the process and its last response are gone, and so are
\* the search_food calls that await their lookup: they get no result.
CloseDb ==
    /\ db
    /\ db' = FALSE
    /\ resp' = NoResponse
    /\ pending' = 0
    /\ UNCHANGED << goals, food_logs, seq, arg, ret >>

\* The next start of the server: getDb() (index.ts, "Initialize database").
GetDb ==
    /\ ~db
    /\ db' = TRUE
    /\ goals' = getDb
    /\ UNCHANGED << food_logs, seq, resp, arg, ret, pending >>

\* ------------------------------------------------------------------------
\* Inputs
\* ------------------------------------------------------------------------

\* The dates of log entries: today (no date, or ""), yesterday and eight days
\* ago (outside the trailing week, inside the trailing month).
DateInputs ==
    {None, Some(<< >>), Some(ToISODate(Today - 1)), Some(ToISODate(Today - 8))}

\* An entry without a meal, and a lunch.
FoodInputs ==
    {[meal |-> None, calories |-> 1, protein_g |-> None, carbs_g |-> None,
      fat_g |-> None, fiber_g |-> None],
     [meal |-> Some(<< 108, 117, 110, 99, 104 >>), calories |-> 2,
      protein_g |-> Some(3), carbs_g |-> Some(1), fat_g |-> Some(0),
      fiber_g |-> Some(2)]}

LogFoodInputs ==
    {[food_name |-> "oatmeal", meal |-> n.meal, date |-> d,
      calories |-> n.calories, protein_g |-> n.protein_g,
      carbs_g |-> n.carbs_g, fat_g |-> n.fat_g, fiber_g |-> n.fiber_g] :
        d \in DateInputs, n \in FoodInputs}

GetDailyLogInputs == {[date |-> None], [date |-> Some(ToISODate(Today - 8))]}

SetGoalsInputs ==
    {[daily_calories |-> c, protein_g |-> None, carbs_g |-> None,
      fat_g |-> None] : c \in {None, Some(3)}}

GetSummaryInputs ==
    {[period |-> Some("week"), start_date |-> None, end_date |-> None],
     [period |-> Some("month"), start_date |-> None, end_date |-> None],
     [period |-> None, start_date |-> None, end_date |-> None],
     [period |-> None, start_date |-> Some(ToISODate(Today - 8)),
      end_date |-> Some(ToISODate(Today - 1))],
     [period |-> None, start_date |-> Some(ToISODate(Today - 1)),
      end_date |-> Some(ToISODate(Today - 8))],
     [period |-> None, start_date |-> Some(ToISODate(Today - 8)),
      end_date |-> None]}

DeleteEntryInputs == {[entry_id |-> i] : i \in 1..MaxSeq}

\* ------------------------------------------------------------------------
\* The server: the state after start-up and one step per tool call
\* ------------------------------------------------------------------------

Init ==
    /\ db = TRUE
    /\ goals = initializeSchema({})
    /\ food_logs = << >>
    /\ seq = 0
    /\ resp = NoResponse
    /\ arg = None
    /\ ret = None
    /\ pending = 0

\* A tool call reaches its handler while the server runs, that is between
\* getDb() at start-up and closeDb() at exit.
LogFoodCall == db /\ \E input \in LogFoodInputs : LogFood(input)

GetDailyLogCall == db /\ \E input \in GetDailyLogInputs : GetDailyLog(input)

SetGoalsCall == db /\ \E input \in SetGoalsInputs : SetGoals(input)

\* The process runs in UTC here (local day = UTC day).
GetSummaryCall == db /\ \E input \in GetSummaryInputs : GetSummary(input, UTC)

DeleteEntryCall == db /\ \E input \in DeleteEntryInputs : DeleteEntry(input)

Next ==
    \/ LogFoodCall
    \/ GetDailyLogCall
    \/ SetGoalsCall
    \/ GetSummaryCall
    \/ DeleteEntryCall
    \/ CloseDb
    \/ GetDb

Spec == Init /\ [][Next]_vars

\* ------------------------------------------------------------------------
\* The server with a wider choice of goals and a narrower one of entries
\* ------------------------------------------------------------------------

\* The foods of FoodInputs and one of 23 kcal: 23 / 40 is not a double, and
\* (23 / 40) * 100 comes out just below 57.5.
GoalsFoodInputs ==
    FoodInputs
        \cup {[meal |-> None, calories |-> 23, protein_g |-> None,
                carbs_g |-> None, fat_g |-> None, fiber_g |-> None]}

GoalsLogFoodInputs ==
    {[food_name |-> "oatmeal", meal |-> n.meal, date |-> None,
      calories |-> n.calories, protein_g |-> n.protein_g,
      carbs_g |-> n.carbs_g, fat_g |-> n.fat_g, fiber_g |-> n.fiber_g] :
        n \in GoalsFoodInputs}

GoalsSetGoalsInputs ==
    [daily_calories : {None, Some(0), Some(3), Some(-2), Some(40)},
     protein_g      : {None, Some(2)},
     carbs_g        : {None, Some(1)},
     fat_g          : {None, Some(1)}]

GoalsGetDailyLogInputs == {[date |-> None]}

GoalsGetSummaryInputs ==
    {[period |-> Some("week"), start_date |-> None, end_date |-> None]}

GoalsLogFoodCall == db /\ \E input \in GoalsLogFoodInputs : LogFood(input)

GoalsGetDailyLogCall ==
    db /\ \E input \in GoalsGetDailyLogInputs : GetDailyLog(input)

GoalsSetGoalsCall == db /\ \E input \in GoalsSetGoalsInputs : SetGoals(input)

GoalsGetSummaryCall ==
    db /\ \E input \in GoalsGetSummaryInputs : GetSummary(input, UTC)

NextGoals ==
    \/ GoalsLogFoodCall
    \/ GoalsGetDailyLogCall
    \/ GoalsSetGoalsCall
    \/ GoalsGetSummaryCall
    \/ DeleteEntryCall
    \/ CloseDb
    \/ GetDb

SpecGoals == Init /\ [][NextGoals]_vars

\* ------------------------------------------------------------------------
\* The server with the date strings its schemas accept (z.string())
\* ------------------------------------------------------------------------

\* The string "constructor".
ConstructorDate == << 99, 111, 110, 115, 116, 114, 117, 99, 116, 111, 114 >>

\* Dates as a caller may write them: "5", "10", "constructor", or none
\* (today).
DatesLogFoodInputs ==
    {[food_name |-> "oatmeal", meal |-> n.meal, date |-> d,
      calories |-> n.calories, protein_g |-> n.protein_g,
      carbs_g |-> n.carbs_g, fat_g |-> n.fat_g, fiber_g |-> n.fiber_g] :
        d \in {None, Some(PadDigits(5, 1)), Some(PadDigits(10, 2)),
                Some(ConstructorDate)},
        n \in FoodInputs}

\* The ranges "0".."9", "a".."z" and "2025-03-01".."2025-03-31", and the
\* trailing week.
DatesGetSummaryInputs ==
    {[period |-> None, start_date |-> Some(PadDigits(0, 1)),
      end_date |-> Some(PadDigits(9, 1))],
     [period |-> None, start_date |-> Some(<< 97 >>),
      end_date |-> Some(<< 122 >>)],
     [period |-> None, start_date |-> Some(ToISODate(Today - 30)),
      end_date |-> Some(ToISODate(Today))],
     [period |-> Some("week"), start_date |-> None, end_date |-> None]}

DatesLogFoodCall == db /\ \E input \in DatesLogFoodInputs : LogFood(input)

DatesGetSummaryCall ==
    db /\ \E input \in DatesGetSummaryInputs : GetSummary(input, UTC)

NextDates ==
    \/ DatesLogFoodCall
    \/ DatesGetSummaryCall
    \/ DeleteEntryCall

SpecDates == Init /\ [][NextDates]_vars

\* ------------------------------------------------------------------------
\* The server with today's entries of several meals
\* ------------------------------------------------------------------------

\* breakfast, lunch and dinner.
MealInputs ==
    {Some(<< 98, 114, 101, 97, 107, 102, 97, 115, 116 >>),
     Some(<< 108, 117, 110, 99, 104 >>),
     Some(<< 100, 105, 110, 110, 101, 114 >>)}

MealsLogFoodInputs ==
    {[food_name |-> "oatmeal", meal |-> m, date |-> None, calories |-> 1,
      protein_g |-> Some(2), carbs_g |-> None, fat_g |-> None,
      fiber_g |-> None] : m \in MealInputs}

MealsLogFoodCall == db /\ \E input \in MealsLogFoodInputs : LogFood(input)

NextMeals ==
    \/ MealsLogFoodCall
    \/ GoalsGetDailyLogCall
    \/ DeleteEntryCall

SpecMeals == Init /\ [][NextMeals]_vars

\* ------------------------------------------------------------------------
\* The server with requests that fail: try { switch (name) ... } catch
\* ------------------------------------------------------------------------

\* default: return { content: [`Unknown tool: ${name}`], isError: true }
UnknownToolNames == {"update_entry", ""}

UnknownTool(name) ==
    /\ resp' = TryCatch(name,
                   Return([tool |-> name, isError |-> TRUE,
                           kind |-> "unknown_tool",
                           message |-> "Unknown tool"]))
    /\ db' = db
    /\ UNCHANGED << goals, food_logs, seq, arg, ret, pending >>

\* XSchema.parse(args) on arguments the schema rejects: the ZodError is
\* thrown by the first statement of the case, before any store call.
InvalidArgumentInputs ==
    {[tool |-> "search_food", issue |-> "query: Required"],
     [tool |-> "log_food", issue |-> "food_name: Required"],
     [tool |-> "log_food", issue |-> "calories: Expected number, received string"],
     [tool |-> "log_food", issue |-> "meal: Invalid enum value"],
     [tool |-> "get_daily_log", issue |-> "date: Expected string, received number"],
     [tool |-> "set_goals", issue |-> "protein_g: Expected number, received string"],
     [tool |-> "get_summary", issue |-> "period: Invalid enum value"],
     [tool |-> "delete_entry", issue |-> "entry_id: Required"]}

SchemaParseThrows(bad) ==
    /\ resp' = TryCatch(bad.tool, Throw(bad.issue))
    /\ db' = db
    /\ UNCHANGED << goals, food_logs, seq, arg, ret, pending >>

\* A store call that throws (SqliteError: the file is locked, the disk is
\* full, ...).  StoreThrows is the throw before any change: of the only
\* statement of a handler, of the INSERT of log_food, of the first SELECT
\* or the UPDATE of set_goals.  In log_food the SELECTs after the INSERT
\* may throw, the row then being stored (LogFoodReadThrows); in set_goals
\* the SELECT after the UPDATE, the goals then being changed
\* (SetGoalsReadThrows).
StoreToolNames ==
    {"log_food", "get_daily_log", "set_goals", "get_summary", "delete_entry"}

StoreThrows(name) ==
    /\ resp' = TryCatch(name, Throw("SqliteError"))
    /\ db' = TRUE
    /\ goals' = getDb
    /\ UNCHANGED << food_logs, seq, arg, ret, pending >>

LogFoodReadThrows(input) ==
    /\ Len(food_logs) < MaxEntries
    /\ seq < MaxSeq
    /\ db' = TRUE
    /\ goals' = getDb
    /\ food_logs' = Append(food_logs, LogFoodEntry(input))
    /\ seq' = seq + 1
    /\ resp' = TryCatch("log_food", Throw("SqliteError"))
    /\ UNCHANGED << arg, ret, pending >>

\* updateGoals(input) whose last statement, return getGoals()!, throws: the
\* UPDATE before it is committed.
SetGoalsReadThrows(input) ==
    /\ ~NothingToSet(input)
    /\ db' = TRUE
    /\ goals' = updateGoals(getDb, input)
    /\ resp' = TryCatch("set_goals", Throw("SqliteError"))
    /\ UNCHANGED << food_logs, seq, arg, ret, pending >>

\* case "search_food": usdaApi.searchFoods(query, limit) finds foods, finds
\* none, or throws (response.ok false, or fetch rejects).  The fetch carries
\* no timeout and no abort signal: it may settle at any later time, or not
\* at all.
SearchFoodOutcomes ==
    {Return([tool |-> "search_food", isError |-> FALSE, kind |-> "found"]),
     Return([tool |-> "search_food", isError |-> FALSE, kind |-> "none_found"]),
     Throw("USDA API error: 500 Internal Server Error"),
     Throw("fetch failed")}

\* The handler up to its await: SearchFoodSchema.parse(args) succeeds and
\* searchFoods sends the request.  The handler is suspended and nothing is
\* returned yet; the server goes on with the requests that arrive.
SearchFood ==
    /\ pending < MaxPending
    /\ pending' = pending + 1
    /\ db' = db
    /\ UNCHANGED << goals, food_logs, seq, resp, arg, ret >>

\* The awaited lookup settles: the handler resumes, inside the try block,
\* and returns the list, "No foods found" or, from the catch, the error.
SearchFoodResumes(outcome) ==
    /\ pending > 0
    /\ pending' = pending - 1
    /\ resp' = TryCatch("search_food", outcome)
    /\ db' = db
    /\ UNCHANGED << goals, food_logs, seq, arg, ret >>

UnknownToolCall == db /\ \E name \in UnknownToolNames : UnknownTool(name)

SchemaParseThrowsCall ==
    db /\ \E bad \in InvalidArgumentInputs : SchemaParseThrows(bad)

StoreThrowsCall == db /\ \E name \in StoreToolNames : StoreThrows(name)

LogFoodReadThrowsCall ==
    db /\ \E input \in GoalsLogFoodInputs : LogFoodReadThrows(input)

SetGoalsReadThrowsCall ==
    db /\ \E input \in SetGoalsInputs : SetGoalsReadThrows(input)

SearchFoodCall == db /\ SearchFood

SearchFoodResumesCall ==
    db /\ \E outcome \in SearchFoodOutcomes : SearchFoodResumes(outcome)

\* A TypeError thrown inside a handler: get_summary over a range that holds
\* an entry dated "constructor", which log_food stored.
InheritedKeyLogFoodInput ==
    [food_name |-> "oatmeal", meal |-> None, date |-> Some(ConstructorDate),
     calories |-> 1, protein_g |-> None, carbs_g |-> None, fat_g |-> None,
     fiber_g |-> None]

\* The range "a".."z".
InheritedKeyGetSummaryInput ==
    [period |-> None, start_date |-> Some(<< 97 >>),
     end_date |-> Some(<< 122 >>)]

InheritedKeyLogFoodCall == db /\ LogFood(InheritedKeyLogFoodInput)

InheritedKeyGetSummaryCall ==
    db /\ GetSummary(InheritedKeyGetSummaryInput, UTC)

NextErrors ==
    \/ GoalsLogFoodCall
    \/ GoalsGetDailyLogCall
    \/ InheritedKeyLogFoodCall
    \/ InheritedKeyGetSummaryCall
    \/ DeleteEntryCall
    \/ UnknownToolCall
    \/ SchemaParseThrowsCall
    \/ StoreThrowsCall
    \/ LogFoodReadThrowsCall
    \/ SetGoalsReadThrowsCall
    \/ SearchFoodCall
    \/ SearchFoodResumesCall
    \/ CloseDb
    \/ GetDb

SpecErrors == Init /\ [][NextErrors]_vars

\* ------------------------------------------------------------------------
\* Direct calls of calculateTotals
\* ------------------------------------------------------------------------

\* 2^53 in the encoding of numbers.
Two53 == BigUnit

TotalsEntryInputs ==
    {[calories |-> None, protein_g |-> None, carbs_g |-> None,
      fat_g |-> None, fiber_g |-> None],
     [calories |-> Some(1), protein_g |-> None, carbs_g |-> Some(2),
      fat_g |-> None, fiber_g |-> Some(1)],
     [calories |-> Some(Two53), protein_g |-> Some(0), carbs_g |-> None,
      fat_g |-> Some(3), fiber_g |-> None],
     [calories |-> Some(0), protein_g |-> Some(2), carbs_g |-> Some(3),
      fat_g |-> Some(1), fiber_g |-> Some(Two53)],
     [calories |-> Some(2), protein_g |-> Some(5), carbs_g |-> None,
      fat_g |-> Some(4), fiber_g |-> Some(3)]}

SeqsUpTo(S, n) == UNION {[1..k -> S] : k \in 0..n}

\* The bijections of 1..n.
Perms(n) ==
    {p \in [1..n -> 1..n] : \A i, j \in 1..n : p[i] = p[j] => i = j}

Permuted(entries, p) == [i \in 1..Len(entries) |-> entries[p[i]]]

NoTotals == [direct |-> None, permuted |-> None]

InitTotals ==
    /\ db = TRUE
    /\ goals = initializeSchema({})
    /\ food_logs = << >>
    /\ seq = 0
    /\ resp = NoResponse
    /\ \E entries \in SeqsUpTo(TotalsEntryInputs, MaxLen) :
         \E p \in Perms(Len(entries)) :
            arg = [entries |-> entries, perm |-> p]
    /\ ret = NoTotals
    /\ pending = 0

\* calculateTotals(entries)
CalculateTotalsCall ==
    /\ ret.direct = None
    /\ ret' = [ret EXCEPT !.direct = Some(calculateTotals(arg.entries))]
    /\ UNCHANGED << db, goals, food_logs, seq, resp, arg, pending >>

\* calculateTotals of the same entries in another order
CalculateTotalsPermutedCall ==
    /\ ret.permuted = None
    /\ ret' = [ret EXCEPT !.permuted =
                   Some(calculateTotals(Permuted(arg.entries, arg.perm)))]
    /\ UNCHANGED << db, goals, food_logs, seq, resp, arg, pending >>

NextTotals == CalculateTotalsCall \/ CalculateTotalsPermutedCall

SpecTotals == InitTotals /\ [][NextTotals]_vars

\* ------------------------------------------------------------------------
\* Period resolution on its own, for every day from 2024-01-01 to 2025-03-31
\* ------------------------------------------------------------------------

PeriodDays == MakeDay(2024, 0, 1)..MakeDay(2025, 2, 31)

\* Times of the day of "new Date()", in minutes: 00:30, 12:00 and 23:30 UTC.
TimesOfDay == {30, 12 * 60, 23 * 60 + 30}

\* Hosts whose zone has one offset all year: UTC, UTC-5 (America/Bogota)
\* and UTC+1 (Africa/Lagos).
FixedZones ==
    {UTC,
     [offset |-> -(5 * 60), offsetAfter |-> -(5 * 60)],
     [offset |-> 60, offsetAfter |-> 60]}

\* Calls just after a change of the host's offset, where the day a week or
\* a month earlier has the other offset:
\*   America/New_York, 2024-03-10T23:30Z (EDT since that morning),
\*   America/New_York, 2024-11-04T00:30Z (EST since the morning of Nov 3),
\*   Europe/London,    2024-03-31T23:30Z (BST since that morning).
DstCalls ==
    {[now |-> MakeDay(2024, 2, 10) * MinutesPerDay + 23 * 60 + 30,
      tz  |-> [offset |-> -(4 * 60), offsetAfter |-> -(5 * 60)]],
     [now |-> MakeDay(2024, 10, 4) * MinutesPerDay + 30,
      tz  |-> [offset |-> -(5 * 60), offsetAfter |-> -(4 * 60)]],
     [now |-> MakeDay(2024, 2, 31) * MinutesPerDay + 23 * 60 + 30,
      tz  |-> [offset |-> 60, offsetAfter |-> 0]]}

ExplicitStart == ToISODate(MakeDay(2024, 5, 1))

ExplicitEnd == ToISODate(MakeDay(2024, 5, 30))

PeriodInputs ==
    {[period |-> Some("week"), start_date |-> None, end_date |-> None],
     [period |-> Some("month"), start_date |-> None, end_date |-> None],
     [period |-> None, start_date |-> None, end_date |-> None],
     [period |-> None, start_date |-> Some(ExplicitStart),
      end_date |-> Some(ExplicitEnd)]}

InitPeriod ==
    /\ db = TRUE
    /\ goals = initializeSchema({})
    /\ food_logs = << >>
    /\ seq = 0
    /\ resp = NoResponse
    /\ arg \in {[input |-> input, now |-> day * MinutesPerDay + minute,
                  tz |-> tz] :
                     input \in PeriodInputs, day \in PeriodDays,
                     minute \in TimesOfDay, tz \in FixedZones}
                \cup {[input |-> input, now |-> call.now, tz |-> call.tz] :
                          input \in PeriodInputs, call \in DstCalls}
    /\ ret = None
    /\ pending = 0

ResolvePeriodCall ==
    /\ ret = None
    /\ ret' = Some(ResolvePeriod(arg.input, arg.now, arg.tz))
    /\ UNCHANGED << db, goals, food_logs, seq, resp, arg, pending >>

NextPeriod == ResolvePeriodCall

SpecPeriod == InitPeriod /\ [][NextPeriod]_vars

\* ------------------------------------------------------------------------
\* Properties
\* ------------------------------------------------------------------------

NutritionFields == {"calories", "protein_g", "carbs_g", "fat_g", "fiber_g"}

GoalFields == {"daily_calories", "protein_g", "carbs_g", "fat_g"}

\* An absent field counts as 0.
AbsentAsZero(x) == IF x = None THEN 0 ELSE Val(x)

\* The sum of a field over the entries from index i on, added to acc one
\* entry after the other in double arithmetic.
RECURSIVE SumInOrder(_, _, _, _)
SumInOrder(entries, field, i, acc) ==
    IF i > Len(entries) THEN acc
    ELSE SumInOrder(entries, field, i + 1,
                    NumAdd(acc, AbsentAsZero(entries[i][field])))

\* The mathematical sum of a field over the entries whose indices are in I.
RECURSIVE SumOver(_, _, _)
SumOver(entries, field, I) ==
    IF I = {} THEN 0
    ELSE LET i == CHOOSE j \in I : TRUE
         IN  AbsentAsZero(entries[i][field])
                 + SumOver(entries, field, I \ {i})

ExactSum(entries, field) == SumOver(entries, field, DOMAIN entries)

\* C1: calculateTotals returns, for each of the five fields, the sum of the
\* field over the entries in their order, an absent field counting as 0:
\* the sum as JavaScript adds it, which is the mathematical sum whenever
\* that is below 2^53; the empty sequence gives five zeros.
C1_TotalsAreFieldSums ==
    IsSome(ret.direct) =>
        /\ \A f \in NutritionFields :
              /\ Val(ret.direct)[f] = SumInOrder(arg.entries, f, 1, 0)
              /\ ExactSum(arg.entries, f) < Two53
                    => Val(ret.direct)[f] = ExactSum(arg.entries, f)
        /\ arg.entries = << >> =>
              \A f \in NutritionFields : Val(ret.direct)[f] = 0

\* Three entries, one of them without protein, summed to non-zero totals.
C1_Witness ==
    /\ IsSome(ret.direct)
    /\ Len(arg.entries) = 3
    /\ \E i \in 1..3 : arg.entries[i].protein_g = None
    /\ \E i \in 1..3 : arg.entries[i].calories = Some(0)
    /\ Val(ret.direct).protein_g = 7
    /\ Val(ret.direct).fat_g = 5
    /\ Val(ret.direct).calories = 3

\* C9 as stated: calculateTotals of a sequence and of any permutation of it
\* are equal in all five fields.
C9_OrderIndependent ==
    (IsSome(ret.direct) /\ IsSome(ret.permuted)) => ret.direct = ret.permuted

\* C9, amended: calculateTotals of a sequence and of any permutation of it
\* are equal in every field whose mathematical sum is below 2^53 (where no
\* addition rounds).
C9_OrderIndependentWhenExact ==
    (IsSome(ret.direct) /\ IsSome(ret.permuted)) =>
        \A f \in NutritionFields :
            ExactSum(arg.entries, f) < Two53
                => Val(ret.direct)[f] = Val(ret.permuted)[f]

\* Three different entries in another order, with equal totals.
C9_Witness ==
    /\ IsSome(ret.direct)
    /\ IsSome(ret.permuted)
    /\ Len(arg.entries) = 3
    /\ arg.entries[1] # arg.entries[2]
    /\ arg.entries[2] # arg.entries[3]
    /\ arg.entries[1] # arg.entries[3]
    /\ arg.perm = << 3, 1, 2 >>
    /\ \A f \in NutritionFields : ExactSum(arg.entries, f) < Two53
    /\ Val(ret.direct).calories > 0
    /\ ret.direct = ret.permuted

\* The positions in food_logs of the rows dated within [startDate, endDate].
RowsInRange(startDate, endDate) ==
    {i \in DOMAIN food_logs :
        StrLeq(startDate, food_logs[i].date)
            /\ StrLeq(food_logs[i].date, endDate)}

DatesInRange(startDate, endDate) ==
    {food_logs[i].date : i \in RowsInRange(startDate, endDate)}

\* The total of a field over the rows of one date.
BucketTotal(date, field) ==
    SumOver(food_logs, field, {i \in DOMAIN food_logs : food_logs[i].date = date})

\* The sum over a set of dates of their bucket totals.
RECURSIVE SumOfBuckets(_, _)
SumOfBuckets(dates, field) ==
    IF dates = {} THEN 0
    ELSE LET d == CHOOSE x \in dates : TRUE
         IN  BucketTotal(d, field) + SumOfBuckets(dates \ {d}, field)

\* n / d rounded to the nearest integer, a half rounded up (d # 0).
RoundedQuotient(n, d) ==
    IF d < 0 THEN (2 * (-n) - d) \div (2 * (-d))
    ELSE (2 * n + d) \div (2 * d)

IsSummary == resp.tool = "get_summary" /\ resp.kind = "summary"

\* C2: the averages of a summary are the sum of the per-date totals divided
\* by the number of distinct dates that have an entry in the range (calories
\* rounded to an integer, the macros to a tenth); "days tracked" is that
\* number of dates and the entry count is the number of rows in the range.
C2_AverageOverTrackedDays ==
    IsSummary =>
        LET dates == DatesInRange(resp.startDate, resp.endDate)
            n     == Cardinality(dates)
        IN  /\ n > 0
            /\ resp.numDays = n
            /\ resp.numEntries =
                   Cardinality(RowsInRange(resp.startDate, resp.endDate))
            /\ resp.avgCalories =
                   Some(RoundedQuotient(SumOfBuckets(dates, "calories"), n))
            /\ resp.avgProtein =
                   Some(RoundedQuotient(10 * SumOfBuckets(dates, "protein_g"), n))
            /\ resp.avgCarbs =
                   Some(RoundedQuotient(10 * SumOfBuckets(dates, "carbs_g"), n))
            /\ resp.avgFat =
                   Some(RoundedQuotient(10 * SumOfBuckets(dates, "fat_g"), n))

\* A summary of the trailing week over three entries on two dates: 5 kcal
\* over 2 tracked days is 3 a day (over 7 calendar days it would be 1).
C2_Witness ==
    /\ IsSummary
    /\ resp.startDate = ToISODate(Today - 7)
    /\ resp.endDate = ToISODate(Today)
    /\ resp.numDays = 2
    /\ resp.numEntries = 3
    /\ SumOfBuckets(DatesInRange(resp.startDate, resp.endDate), "calories") = 5
    /\ resp.avgCalories = Some(3)
    /\ resp.avgProtein = Some(30)

\* C6: the daily breakdown of a summary has one element per distinct date
\* of the rows in the range, each with the totals of its date, in strictly
\* ascending order of the date strings, whatever the order in which the
\* rows were logged.
C6_BreakdownAscending ==
    IsSummary =>
        LET days == resp.dailyTotals
        IN  /\ \A k \in 1..(Len(days) - 1) :
                  StrLess(days[k].date, days[k + 1].date)
            /\ {days[k].date : k \in DOMAIN days} =
                   DatesInRange(resp.startDate, resp.endDate)
            /\ Len(days) = Cardinality(DatesInRange(resp.startDate, resp.endDate))
            /\ \A k \in DOMAIN days : \A f \in NutritionFields :
                  days[k][f] = BucketTotal(days[k].date, f)

\* C7: get_summary answers with the non-error "no entries" outcome, which
\* carries no average, exactly when no row is dated within the range; a
\* summary has at least one day, and none of its averages is a division by
\* zero.
C7_EmptyRangeNoDivision ==
    resp.tool = "get_summary" =>
        /\ ~resp.isError
        /\ (RowsInRange(resp.startDate, resp.endDate) = {})
               <=> (resp.kind = "empty")
        /\ resp.kind = "empty" =>
               DOMAIN resp = {"tool", "isError", "kind", "startDate", "endDate"}
        /\ resp.kind # "empty" =>
               /\ resp.kind = "summary"
               /\ resp.numDays >= 1
               /\ IsSome(resp.avgCalories)
               /\ IsSome(resp.avgProtein)
               /\ IsSome(resp.avgCarbs)
               /\ IsSome(resp.avgFat)

\* The store holds entries, none of them within the range asked for.
C7_Witness ==
    /\ resp.tool = "get_summary"
    /\ resp.kind = "empty"
    /\ ~resp.isError
    /\ Len(food_logs) = 2
    /\ StrLess(resp.startDate, resp.endDate)

\* The goal stored for a field, and the day's total it is compared with.
StoredGoal(f) == GoalField(getGoals(goals), f)

TotalField(f) == IF f = "daily_calories" THEN "calories" ELSE f

GoalInForce(f) == IsSome(StoredGoal(f)) /\ Val(StoredGoal(f)) # 0

\* C3 as stated: a log_food response carries a remaining-vs-goal delta for
\* each of the four goal fields exactly when that goal is set, and the delta
\* is the goal minus the day's total.
C3_DeltaForEachSetGoal ==
    resp.tool = "log_food" =>
        \A f \in GoalFields :
            /\ IsSome(resp.remaining[f]) <=> IsSome(StoredGoal(f))
            /\ IsSome(resp.remaining[f]) =>
                   Val(resp.remaining[f]) =
                       Val(StoredGoal(f)) - BucketTotal(resp.date, TotalField(f))

\* The calories a response compares with the goal: the day's total, or the
\* average shown.
ShowsPercent ==
    \/ resp.tool = "get_daily_log" /\ resp.kind = "log"
    \/ IsSummary

ActualCalories ==
    IF resp.tool = "get_daily_log" THEN BucketTotal(resp.date, "calories")
    ELSE Val(resp.avgCalories)

\* C4 as stated: get_daily_log and get_summary give a percentage of the
\* calorie goal exactly when that goal is a positive number, and it is
\* round(actual / goal * 100).
C4_PercentIffPositiveGoal ==
    ShowsPercent =>
        /\ IsSome(resp.pct) <=>
               (IsSome(StoredGoal("daily_calories"))
                    /\ Val(StoredGoal("daily_calories")) > 0)
        /\ IsSome(resp.pct) =>
               resp.pct = Some(Some(RoundedQuotient(
                              100 * ActualCalories,
                              Val(StoredGoal("daily_calories")))))

\* n / d is an odd multiple of 1/2 (d # 0).
IsHalfInteger(n, d) ==
    /\ (2 * n) % Abs(d) = 0
    /\ ((2 * n) \div Abs(d)) % 2 = 1

\* C4, amended: get_daily_log and get_summary give a percentage of the
\* calorie goal exactly when that goal is set and not 0 (a negative goal
\* gives one too), and no division by a goal of 0 is made.  The percentage
\* is actual / goal * 100 rounded to the nearest integer; where that value
\* lies exactly half way between two integers it is one of the two (the
\* quotient is rounded to a double before it is multiplied).
C4_PercentIffNonZeroGoal ==
    ShowsPercent =>
        /\ IsSome(resp.pct) <=> GoalInForce("daily_calories")
        /\ IsSome(resp.pct) =>
               LET goal    == Val(StoredGoal("daily_calories"))
                   nearest == RoundedQuotient(100 * ActualCalories, goal)
               IN  /\ IsSome(Val(resp.pct))
                   /\ IF IsHalfInteger(100 * ActualCalories, goal)
                      THEN Val(Val(resp.pct)) \in {nearest - 1, nearest}
                      ELSE Val(Val(resp.pct)) = nearest

\* A daily log of 23 kcal against a goal of 40: 57 %, the double
\* (23 / 40) * 100 lying just below 57.5.
C4_Witness ==
    /\ resp.tool = "get_daily_log"
    /\ resp.kind = "log"
    /\ StoredGoal("daily_calories") = Some(40)
    /\ resp.totals.calories = 23
    /\ resp.pct = Some(Some(57))

\* C5: set_goals overwrites each goal field its input supplies with the
\* value supplied, and leaves every other goal field at its prior value.
C5_OverwritesSuppliedFields ==
    [][\A input \in GoalsSetGoalsInputs :
          SetGoals(input) =>
              \A f \in GoalFields :
                  GoalField(getGoals(goals'), f) =
                      IF IsSome(input[f]) THEN input[f]
                      ELSE GoalField(getGoals(goals), f)]_vars

\* C10: the goals table holds exactly one row, the row getGoals returns,
\* in every state: after start-up, after every tool call, and after closeDb
\* and the getDb that follows it.
C10_OneGoalsRecord ==
    /\ Cardinality(goals) = 1
    /\ \E g \in goals : goals = {g} /\ getGoals(getDb) = Some(g)
    /\ getDb = goals

\* The server restarted (closeDb, getDb) on goals that set_goals had changed.
C10_Witness ==
    /\ db
    /\ resp = NoResponse
    /\ food_logs # << >>
    /\ goals = {[DefaultGoals EXCEPT !.daily_calories = Some(3)]}

\* The number of the month (12 * year + month) of a day.
MonthNumber(n) == 12 * YearFromDay(n) + MonthFromDay(n)

\* C8: "week" and a request without period or range resolve to [today - 7
\* days, today], "month" to [a day of the calendar month before today's,
\* today], an explicit pair to itself; for "week", "month" and the default
\* the start is not after the end.
C8_PeriodResolution ==
    IsSome(ret) =>
        LET range  == Val(ret)
            today  == Day(arg.now)
            input  == arg.input
            preset == IsSome(input.period)
            pair   == ~preset /\ IsSome(input.start_date)
                          /\ IsSome(input.end_date)
        IN  /\ pair => /\ range.startDate = Val(input.start_date)
                       /\ range.endDate = Val(input.end_date)
            /\ ~pair => /\ range.endDate = ToISODate(today)
                        /\ StrLeq(range.startDate, range.endDate)
            /\ (input.period = Some("week") \/ (~preset /\ ~pair)) =>
                   range.startDate = ToISODate(today - 7)
            /\ input.period = Some("month") =>
                   \E d \in (today - 31)..(today - 28) :
                       /\ range.startDate = ToISODate(d)
                       /\ MonthNumber(d) = MonthNumber(today) - 1

\* The ids of the rows of a food_logs table.
IdsOf(rows) == {rows[i].id : i \in DOMAIN rows}

\* C11: in every step a stored entry either stays as it is (id, date, meal,
\* food name, nutrition values) or is removed, and it is removed only by the
\* delete_entry that names its id; an entry appears only in a log_food step,
\* as the entry that step created.
C11_EntriesImmutable ==
    [][/\ \A i \in DOMAIN food_logs :
              \/ \E j \in DOMAIN food_logs' : food_logs'[j] = food_logs[i]
              \/ /\ food_logs[i].id \notin IdsOf(food_logs')
                 /\ resp'.tool = "delete_entry"
                 /\ resp'.kind = "deleted"
                 /\ resp'.entry_id = food_logs[i].id
       /\ \A j \in DOMAIN food_logs' :
              \/ \E i \in DOMAIN food_logs : food_logs[i] = food_logs'[j]
              \/ /\ food_logs'[j].id \notin IdsOf(food_logs)
                 /\ resp'.tool = "log_food"
                 /\ resp'.entry = food_logs'[j]
       /\ Cardinality(IdsOf(food_logs')) = Len(food_logs')]_vars

\* Entries 1 and 3 as they were logged, after entry 2 was deleted and the
\* goals were changed.
C11_Witness ==
    /\ Len(food_logs) = 2
    /\ food_logs[1].id = 1
    /\ food_logs[1].meal = Some(<< 108, 117, 110, 99, 104 >>)
    /\ food_logs[1].date = ToISODate(Today - 8)
    /\ food_logs[2].id = 3
    /\ food_logs[2].calories = Some(1)
    /\ resp.tool = "set_goals"
    /\ resp.kind = "updated"

\* The place of a meal label in the order of the meals of a day (the order
\* of the enum of LogFoodSchema), entries without a meal last.
MealRank(label) ==
    CASE label = << 98, 114, 101, 97, 107, 102, 97, 115, 116 >> -> 1
      [] label = << 108, 117, 110, 99, 104 >>                   -> 2
      [] label = << 100, 105, 110, 110, 101, 114 >>             -> 3
      [] label = << 115, 110, 97, 99, 107 >>                    -> 4
      [] OTHER                                                  -> 5

\* The stored rows of a date, oldest first, and their labels (an absent meal
\* being the label "unspecified").
RowsOfDate(date) ==
    LET OnDate(r) == r.date = date
    IN  SelectSeq(food_logs, OnDate)

LabelOf(row) ==
    IF row.meal = None
    THEN << 117, 110, 115, 112, 101, 99, 105, 102, 105, 101, 100 >>
    ELSE Val(row.meal)

\* C12: the daily view partitions the day's entries by meal label, every
\* entry in exactly one group and each group in the order of creation; the
\* groups come in the fixed order of the meals, whatever the order in which
\* the entries arrived.
C12_MealGroupsCanonical ==
    (resp.tool = "get_daily_log" /\ resp.kind = "log") =>
        LET rows   == RowsOfDate(resp.date)
            groups == resp.groups
        IN  /\ \A i \in DOMAIN rows :
                   Cardinality({k \in DOMAIN groups :
                       \E j \in DOMAIN groups[k].entries :
                           groups[k].entries[j] = rows[i]}) = 1
            /\ \A k \in DOMAIN groups :
                   LET InGroup(r) == LabelOf(r) = groups[k].meal
                   IN  groups[k].entries = SelectSeq(rows, InGroup)
            /\ \A k \in 1..(Len(groups) - 1) :
                   MealRank(groups[k].meal) < MealRank(groups[k + 1].meal)

\* C13: with a positive calorie goal, the percentage a summary shows is
\* round(unrounded average calories / goal * 100), the unrounded average
\* being the sum of the per-date totals over the number of tracked days.
C13_PercentFromUnroundedAverage ==
    (IsSummary /\ IsSome(StoredGoal("daily_calories"))
         /\ Val(StoredGoal("daily_calories")) > 0) =>
        LET dates == DatesInRange(resp.startDate, resp.endDate)
            n     == Cardinality(dates)
        IN  resp.pct = Some(Some(RoundedQuotient(
                           100 * SumOfBuckets(dates, "calories"),
                           n * Val(StoredGoal("daily_calories")))))

\* A response that is a returned result, and one that reports a failure.
IsReturned(r) == r.kind # "rejected"

ReportsFailure(r) == IsReturned(r) /\ r.isError /\ r.message # ""

\* What C14 says of the failures: a request that names an unknown tool,
\* whose arguments its schema rejects, whose store call or remote lookup
\* throws, or whose handler throws while it groups the entries, returns a
\* result flagged as an error that carries a message.
FailuresReported ==
    /\ (/\ GetSummary(InheritedKeyGetSummaryInput, UTC)
        /\ \E i \in DOMAIN food_logs :
               food_logs[i].date = ConstructorDate)
           => ReportsFailure(resp')
    /\ (\E name \in UnknownToolNames : UnknownTool(name))
           => ReportsFailure(resp')
    /\ (\E bad \in InvalidArgumentInputs : SchemaParseThrows(bad))
           => ReportsFailure(resp')
    /\ ((\E name \in StoreToolNames : StoreThrows(name))
           \/ (\E input \in GoalsLogFoodInputs : LogFoodReadThrows(input))
           \/ (\E input \in SetGoalsInputs : SetGoalsReadThrows(input)))
           => ReportsFailure(resp')
    /\ (\E outcome \in SearchFoodOutcomes :
           outcome.thrown /\ SearchFoodResumes(outcome))
           => ReportsFailure(resp')

\* C14 as stated: every request yields a returned result (a search_food
\* that awaits its lookup leaves that state only with its result), the
\* failures are reported as error results, and no tool call stops the
\* server.
C14_EveryRequestAnswered ==
    [][/\ IsReturned(resp')
       /\ pending' < pending =>
              /\ pending' = pending - 1
              /\ resp'.tool = "search_food"
       /\ FailuresReported
       /\ db' \/ CloseDb]_vars

\* C14, amended: no tool call stops the server, and every request whose
\* handler runs to its end yields a returned result, the failures as error
\* results with a message.  A search_food is answered when its lookup
\* settles; until then the server serves the requests that arrive; the
\* search_food calls that still await their lookup when SIGINT or SIGTERM
\* ends the process get no result.
C14_NoCallAborts ==
    [][/\ IsReturned(resp')
       /\ pending' < pending =>
              \/ /\ pending' = pending - 1
                 /\ resp'.tool = "search_food"
              \/ /\ CloseDb
                 /\ pending' = 0
       /\ FailuresReported
       /\ db' \/ CloseDb]_vars

\* A log_food answered with an error, two entries being stored, while a
\* search_food awaits its lookup.
C14_Witness ==
    /\ resp.tool = "log_food"
    /\ resp.kind = "error"
    /\ resp.isError
    /\ resp.message = "SqliteError"
    /\ Len(food_logs) = 2
    /\ pending = 1
    /\ db

\* A string of the shape YYYY-MM-DD: ten characters, digits but for the
\* hyphens (code 45) in the fifth and the eighth place.
IsWellFormedDate(str) ==
    /\ Len(str) = 10
    /\ \A i \in {1, 2, 3, 4, 6, 7, 9, 10} : IsDigitCode(str[i])
    /\ str[5] = 45
    /\ str[8] = 45

\* C15: a date that is not a well-formed YYYY-MM-DD string reaches neither
\* the store nor an aggregation: every stored entry has a well-formed date,
\* and get_daily_log and get_summary answer without an error only for
\* well-formed dates.
C15_MalformedDateRejected ==
    /\ \A i \in DOMAIN food_logs : IsWellFormedDate(food_logs[i].date)
    /\ (resp.tool = "get_daily_log" /\ ~resp.isError) =>
           IsWellFormedDate(resp.date)
    /\ (resp.tool = "get_summary" /\ ~resp.isError) =>
           /\ IsWellFormedDate(resp.startDate)
           /\ IsWellFormedDate(resp.endDate)

\* C16: the daily total in a log_food response for date d is the total,
\* field by field, of exactly the entries stored with date d when the call
\* returns: the entry just logged is among them, deleted entries and entries
\* of other dates are not.
C16_DailyTotalAfterLogFood ==
    (resp.tool = "log_food" /\ resp.kind = "logged") =>
        /\ food_logs # << >>
        /\ resp.entry = food_logs[Len(food_logs)]
        /\ resp.entry.date = resp.date
        /\ \A f \in NutritionFields :
               resp.totals[f] = BucketTotal(resp.date, f)

\* Entry 3 logged for today after entry 1 was deleted, entry 2 being of
\* another date: the total is that of entry 3 alone.
C16_Witness ==
    /\ resp.tool = "log_food"
    /\ resp.kind = "logged"
    /\ Len(food_logs) = 2
    /\ food_logs[1].id = 2
    /\ food_logs[1].date = ToISODate(Today - 1)
    /\ food_logs[1].calories = Some(1)
    /\ food_logs[2].id = 3
    /\ resp.date = getToday
    /\ resp.totals.calories = 2
    /\ resp.totals.protein_g = 3

\* The rows of a table but the one with the given id.
WithoutId(rows, id) ==
    LET Other(r) == r.id # id
    IN  SelectSeq(rows, Other)

\* C17: delete_entry(id) reports success exactly when a row with that id
\* was stored; it removes that row and nothing else, leaves the goals as
\* they are, and leaves the store as it is when it reports "not found".
\* No id is assigned twice: the id of a new row is larger than every id
\* assigned before, so a deleted id stays "not found".
C17_DeleteEntryExact ==
    [][/\ \A input \in DeleteEntryInputs :
              DeleteEntry(input) =>
                  /\ resp'.kind = "deleted"
                         <=> input.entry_id \in IdsOf(food_logs)
                  /\ resp'.kind \in {"deleted", "not_found"}
                  /\ food_logs' = WithoutId(food_logs, input.entry_id)
                  /\ resp'.kind = "not_found" => food_logs' = food_logs
                  /\ goals' = goals
                  /\ input.entry_id \notin IdsOf(food_logs')
       /\ seq' >= seq
       /\ \A id \in IdsOf(food_logs) : id <= seq
       /\ \A id \in IdsOf(food_logs') \ IdsOf(food_logs) : id > seq]_vars

\* Entry 1 is reported "not found" while entries 2 and 3, logged after it,
\* are stored.
C17_Witness ==
    /\ resp.tool = "delete_entry"
    /\ resp.kind = "not_found"
    /\ resp.entry_id = 1
    /\ Len(food_logs) = 2
    /\ food_logs[1].id = 2
    /\ food_logs[2].id = 3

=============================================================================
